---- MODULE Spec2Model ----
(***************************************************************************)
(* Model of proxy_server.py: one asyncio task per accepted client runs     *)
(* handle_client, which parses the first read, consults BLOCKED_HOSTS and  *)
(* either denies (send_forbidden), tunnels (handle_https) or forwards      *)
(* (forward_http); relay is the one-directional copy loop.                 *)
(*                                                                         *)
(* Bytes are numbers 0..255, byte strings are sequences of bytes, text is  *)
(* a sequence of code points.  Stream writers are modelled by the sequence *)
(* of bytes handed to write() and a count of close() calls; stream readers *)
(* by the environment choosing what each read() returns.                   *)
(***************************************************************************)
EXTENDS Integers, Sequences, FiniteSets, TLC

\* ------------------------------------------------------------------------
\* Bounds of the model (not program constants)
\* ------------------------------------------------------------------------
\* most bytes a relay direction reads from its source in one session
MaxRelayBytes == 2
\* longest chunk one relay read() returns in the model
MaxChunk == 2

\* ------------------------------------------------------------------------
\* Program constants
\* ------------------------------------------------------------------------
BUFFER_SIZE == 4096
\* ['www.example.com']
BLOCKED_HOSTS == { <<119,119,119,46,101,120,97,109,112,108,101,46,99,111,109>> }

\* b"HTTP/1.1 200 Connection Established\r\n\r\n"
Established200 ==
  <<72,84,84,80,47,49,46,49,32,50,48,48,32,67,111,110,110,101,99,116,105,111,
    110,32,69,115,116,97,98,108,105,115,104,101,100,13,10,13,10>>

\* "<html><body><h1>403 Forbidden: Access Denied</h1></body></html>"
ForbiddenBody ==
  <<60,104,116,109,108,62,60,98,111,100,121,62,60,104,49,62,52,48,51,32,70,
    111,114,98,105,100,100,101,110,58,32,65,99,99,101,115,115,32,68,101,110,
    105,101,100,60,47,104,49,62,60,47,98,111,100,121,62,60,47,104,116,109,
    108,62>>

\* the text of the 403 response, as code points:
\* "HTTP/1.1 403 Forbidden\r\n" "Content-Type: text/html\r\n"
\* "Content-Length: 58\r\n" "\r\n" body
ForbiddenText ==
  <<72,84,84,80,47,49,46,49,32,52,48,51,32,70,111,114,98,105,100,100,101,110,
    13,10>>
  \o <<67,111,110,116,101,110,116,45,84,121,112,101,58,32,116,101,120,116,47,
       104,116,109,108,13,10>>
  \o <<67,111,110,116,101,110,116,45,76,101,110,103,116,104,58,32,53,56,13,10>>
  \o <<13,10>>
  \o ForbiddenBody

\* ------------------------------------------------------------------------
\* Python string and bytes primitives used by the program
\* ------------------------------------------------------------------------
\* s.startswith(p)
StartsWith(s, p) == Len(s) >= Len(p) /\ SubSeq(s, 1, Len(p)) = p

\* index of the first occurrence of character c in s, 0 when absent
FirstIndex(s, c) ==
  LET hits == { i \in 1..Len(s) : s[i] = c }
  IN IF hits = {} THEN 0 ELSE CHOOSE i \in hits : \A j \in hits : i <= j

\* s.split(c) for a one-character separator: always at least one piece
RECURSIVE Split(_, _)
Split(s, c) ==
  LET i == FirstIndex(s, c)
  IN IF i = 0 THEN << s >>
     ELSE << SubSeq(s, 1, i-1) >> \o Split(SubSeq(s, i+1, Len(s)), c)

\* the characters str.strip() and int() treat as whitespace
Whitespace ==
  (9..13) \cup (28..32) \cup {133, 160, 5760} \cup (8192..8202)
  \cup {8232, 8233, 8239, 8287, 12288}

\* s.strip()
Strip(s) ==
  LET keep == { i \in 1..Len(s) : s[i] \notin Whitespace }
  IN IF keep = {} THEN << >>
     ELSE LET lo == CHOOSE i \in keep : \A j \in keep : i <= j
              hi == CHOOSE i \in keep : \A j \in keep : j <= i
          IN SubSeq(s, lo, hi)

IsDigit(c) == c \in 48..57

\* value of a digit string in which single underscores may separate digits
RECURSIVE DigitsValue(_, _)
DigitsValue(s, acc) ==
  IF s = << >> THEN acc
  ELSE IF Head(s) = 95 THEN DigitsValue(Tail(s), acc)
  ELSE DigitsValue(Tail(s), acc * 10 + (Head(s) - 48))

\* int(s): surrounding whitespace is ignored, one optional sign, then
\* ASCII digits with single underscores between digits; anything else
\* raises ValueError (ok = FALSE)
PyInt(s) ==
  LET t    == Strip(s)
      sg   == t # << >> /\ Head(t) \in {43, 45}
      d    == IF sg THEN Tail(t) ELSE t
      good == /\ d # << >>
              /\ \A i \in 1..Len(d) : IsDigit(d[i]) \/ d[i] = 95
              /\ IsDigit(d[1]) /\ IsDigit(d[Len(d)])
              /\ \A i \in 1..(Len(d)-1) : ~(d[i] = 95 /\ d[i+1] = 95)
  IN IF ~good THEN [ok |-> FALSE, val |-> 0]
     ELSE [ok |-> TRUE,
           val |-> IF sg /\ Head(t) = 45 THEN 0 - DigitsValue(d, 0)
                   ELSE DigitsValue(d, 0)]

IsCont(b) == b \in 128..191

\* the decoder's loop: position i of b is where decoding continues, acc the
\* text decoded so far; a run of ASCII bytes decodes to the same code points
\* and is taken in one step, then one multi-byte character is decoded;
\* ok = FALSE is UnicodeDecodeError
RECURSIVE Utf8DecodeFrom(_, _, _)
Utf8DecodeFrom(b, i, acc) ==
  LET high == { k \in i..Len(b) : b[k] >= 128 }
  IN IF high = {} THEN [ok |-> TRUE, str |-> acc \o SubSeq(b, i, Len(b))]
     ELSE
       LET j  == CHOOSE k \in high : \A m \in high : k <= m
           b1 == b[j]
           n  == IF b1 \in 194..223 THEN 2
                 ELSE IF b1 \in 224..239 THEN 3
                 ELSE IF b1 \in 240..244 THEN 4
                 ELSE 0
           wellFormed ==
             /\ n > 0 /\ Len(b) >= j + n - 1
             /\ \A k \in 1..(n-1) : IsCont(b[j+k])
             /\ (b1 = 224 => b[j+1] >= 160)
             /\ (b1 = 237 => b[j+1] <= 159)
             /\ (b1 = 240 => b[j+1] >= 144)
             /\ (b1 = 244 => b[j+1] <= 143)
           cp == IF n = 2 THEN (b1 - 192) * 64 + (b[j+1] - 128)
                 ELSE IF n = 3 THEN (b1 - 224) * 4096 + (b[j+1] - 128) * 64
                                    + (b[j+2] - 128)
                 ELSE (b1 - 240) * 262144 + (b[j+1] - 128) * 4096
                      + (b[j+2] - 128) * 64 + (b[j+3] - 128)
       IN IF ~wellFormed THEN [ok |-> FALSE, str |-> << >>]
          ELSE Utf8DecodeFrom(b, j + n,
                              Append(acc \o SubSeq(b, i, j-1), cp))

\* bytes.decode('utf-8') in strict mode
Utf8Decode(b) == Utf8DecodeFrom(b, 1, << >>)

\* the UTF-8 encoding of one code point
Utf8EncodeChar(c) ==
  IF c < 128 THEN << c >>
  ELSE IF c < 2048 THEN << 192 + (c \div 64), 128 + (c % 64) >>
  ELSE IF c < 65536
       THEN << 224 + (c \div 4096), 128 + ((c \div 64) % 64), 128 + (c % 64) >>
  ELSE << 240 + (c \div 262144), 128 + ((c \div 4096) % 64),
          128 + ((c \div 64) % 64), 128 + (c % 64) >>

\* str.encode('utf-8'): the encodings of the characters, concatenated in
\* order (computed by halves to keep the recursion shallow)
RECURSIVE Utf8Encode(_)
Utf8Encode(s) ==
  IF s = << >> THEN << >>
  ELSE IF Len(s) = 1 THEN Utf8EncodeChar(s[1])
  ELSE LET h == Len(s) \div 2
       IN Utf8Encode(SubSeq(s, 1, h)) \o Utf8Encode(SubSeq(s, h+1, Len(s)))

\* ------------------------------------------------------------------------
\* get_target_host
\* ------------------------------------------------------------------------
\* the (None, None) result
NoTarget == [none |-> TRUE, host |-> << >>, port |-> 0]

Target(h, p) == [none |-> FALSE, host |-> h, port |-> p]

\* 'CONNECT'
ConnectToken == <<67,79,78,78,69,67,84>>
\* 'Host:'
HostToken == <<72,111,115,116,58>>

\* variant: the port must consist of digits only, as with str.isdigit()
ConnectTargetDigitsOnly(request_str) ==
  LET target_host_line == Split(request_str, 10)[1]
      tokens == Split(target_host_line, 32)
  IN IF Len(tokens) < 2 THEN NoTarget
     ELSE LET parts == Split(tokens[2], 58)
          IN IF Len(parts) # 2 THEN NoTarget
             ELSE IF parts[2] = << >>
                     \/ \E i \in 1..Len(parts[2]) : ~IsDigit(parts[2][i])
                  THEN NoTarget
                  ELSE Target(parts[1], DigitsValue(parts[2], 0))

\* variant: any number of colons is accepted, the text after the last one
\* is the port (as with rsplit)
ConnectTargetLastColon(request_str) ==
  LET target_host_line == Split(request_str, 10)[1]
      tokens == Split(target_host_line, 32)
  IN IF Len(tokens) < 2 THEN NoTarget
     ELSE LET parts == Split(tokens[2], 58)
          IN IF Len(parts) < 2 THEN NoTarget
             ELSE LET port == PyInt(parts[Len(parts)])
                  IN IF ~port.ok THEN NoTarget
                     ELSE Target(parts[1], port.val)

\* the CONNECT branch: second space-separated token of the first line,
\* split at ':' into exactly two parts, the second given to int()
ConnectTarget(request_str) ==
  LET target_host_line == Split(request_str, 10)[1]
      tokens == Split(target_host_line, 32)
  IN IF Len(tokens) < 2 THEN NoTarget
     ELSE LET parts == Split(tokens[2], 58)
          IN IF Len(parts) # 2 THEN NoTarget
             ELSE LET port == PyInt(parts[2])
                  IN IF ~port.ok THEN NoTarget
                     ELSE Target(parts[1], port.val)

\* variant: the token after 'Host:' is returned without strip()
HostTargetUnstripped(request_str) ==
  LET lines == Split(request_str, 10)
      hits  == { i \in 1..Len(lines) : StartsWith(lines[i], HostToken) }
  IN IF hits = {} THEN NoTarget
     ELSE LET i == CHOOSE k \in hits : \A j \in hits : k <= j
              tokens == Split(lines[i], 32)
          IN IF Len(tokens) < 2 THEN NoTarget
             ELSE Target(tokens[2], 80)

\* the Host: branch: the first line that starts with 'Host:' decides
HostTarget(request_str) ==
  LET lines == Split(request_str, 10)
      hits  == { i \in 1..Len(lines) : StartsWith(lines[i], HostToken) }
  IN IF hits = {} THEN NoTarget
     ELSE LET i == CHOOSE k \in hits : \A j \in hits : k <= j
              tokens == Split(lines[i], 32)
          IN IF Len(tokens) < 2 THEN NoTarget
             ELSE Target(Strip(tokens[2]), 80)

get_target_host(request) ==
  LET d == Utf8Decode(request)
  IN IF ~d.ok THEN NoTarget
     ELSE IF StartsWith(d.str, ConnectToken) THEN ConnectTarget(d.str)
     ELSE HostTarget(d.str)

\* ------------------------------------------------------------------------
\* What the first read of a client connection can return
\* ------------------------------------------------------------------------
\* b'CONNECT ' authority b' HTTP/1.1\r\n\r\n'
ConnectRequest(authority) ==
  <<67,79,78,78,69,67,84,32>> \o authority
  \o <<32,72,84,84,80,47,49,46,49,13,10,13,10>>

\* b'GET / HTTP/1.1\r\n' header line b'\r\n\r\n' body
ForwardRequest(headerLine, body) ==
  <<71,69,84,32,47,32,72,84,84,80,47,49,46,49,13,10>> \o headerLine
  \o <<13,10,13,10>> \o body

\* 'www.example.com'
BlockedName == <<119,119,119,46,101,120,97,109,112,108,101,46,99,111,109>>

Authorities ==
  { <<104,58,52,52,51>>,            \* h:443
    BlockedName \o <<58,52,52,51>>, \* www.example.com:443
    <<58,52,52,51>>,                \* :443
    <<104,58,48>>,                  \* h:0
    <<104,58,55,48,48,48,48>>,      \* h:70000
    <<104,58,120>>,                 \* h:x
    <<104>>,                        \* h
    <<97,58,98,58,99>> }            \* a:b:c

HeaderLines ==
  { <<72,111,115,116,58,32,104>>,       \* Host: h
    <<72,111,115,116,58,32>> \o BlockedName,
    <<72,111,115,116,58,32>>,           \* Host: followed by nothing
    <<72,111,115,116,58,104>>,          \* Host:h
    <<65,58,32,104>> }                  \* A: h   (no Host: line)

\* bodies that arrive in the same read as the head: none, a byte that is
\* not UTF-8, and the two-byte UTF-8 encoding of U+00E9
Bodies == { << >>, <<255>>, <<195,169>> }

FirstReads ==
  { << >>, <<67,79,78,78,69,67,84>> }
  \cup { ConnectRequest(a) : a \in Authorities }
  \cup { ConnectRequest(<<104,58,52,52,51>>) \o <<104,105>> }
  \cup { ForwardRequest(h, b) : h \in HeaderLines, b \in Bodies }

\* the bytes the peers send through an established relay
DataBytes == {1, 2}

Min(a, b) == IF a < b THEN a ELSE b

\* what one relay read(BUFFER_SIZE) can return besides b''
Chunks ==
  UNION { [1..n -> DataBytes] : n \in 1..Min(MaxChunk, BUFFER_SIZE) }

\* ------------------------------------------------------------------------
\* State
\* ------------------------------------------------------------------------
Sessions == {"s1"}
\* relay(reader, server_writer) and relay(server_reader, writer)
Legs == {"c2s", "s2c"}
Writers == {"writer", "server_writer"}

Sink(d) == IF d = "c2s" THEN "server_writer" ELSE "writer"

VARIABLES
  pc,          \* position of each session's handle_client task
  request,     \* the bytes of the first read
  target,      \* (target_host, target_port) as returned by get_target_host
  reachable,   \* environment: does the destination accept a connection
  connects,    \* the (host, port) pairs asyncio.open_connection was called with
  serverOpen,  \* open_connection returned a (server_reader, server_writer)
  wrote,       \* bytes handed to write() of each stream writer, in order
  closes,      \* number of close() calls on each stream writer
  legPc,       \* position of each relay coroutine
  legData,     \* the local variable data of each relay coroutine
  legRead,     \* bytes each relay has obtained from its reader, in order
  legExit      \* why each relay left its loop

vars == << pc, request, target, reachable, connects, serverOpen, wrote,
           closes, legPc, legData, legRead, legExit >>

handlerVars == << pc, request, target, connects, serverOpen >>
legVars == << legPc, legData, legRead, legExit >>

Init ==
  /\ pc = [s \in Sessions |-> "read"]
  /\ request = [s \in Sessions |-> << >>]
  /\ target = [s \in Sessions |-> NoTarget]
  /\ reachable \in [Sessions -> BOOLEAN]
  /\ connects = [s \in Sessions |-> << >>]
  /\ serverOpen = [s \in Sessions |-> FALSE]
  /\ wrote = [s \in Sessions |-> [w \in Writers |-> << >>]]
  /\ closes = [s \in Sessions |-> [w \in Writers |-> 0]]
  /\ legPc = [s \in Sessions |-> [d \in Legs |-> "off"]]
  /\ legData = [s \in Sessions |-> [d \in Legs |-> << >>]]
  /\ legRead = [s \in Sessions |-> [d \in Legs |-> << >>]]
  /\ legExit = [s \in Sessions |-> [d \in Legs |-> "none"]]

\* variant: the data is handed to the writer of that name in every session
WriteAllSessions(s, w, data) ==
  wrote' = [t \in DOMAIN wrote |-> [wrote[t] EXCEPT ![w] = @ \o data]]

\* writer.write(data) and writer.close() on stream writer w of session s
Write(s, w, data) == wrote' = [wrote EXCEPT ![s][w] = @ \o data]
Close(s, w) == closes' = [closes EXCEPT ![s][w] = @ + 1]
Goto(s, label) == pc' = [pc EXCEPT ![s] = label]

\* ------------------------------------------------------------------------
\* handle_client
\* ------------------------------------------------------------------------
\* request = await reader.read(BUFFER_SIZE)
HandleClientRead(s) ==
  /\ pc[s] = "read"
  /\ \E r \in FirstReads :
       /\ Len(r) <= BUFFER_SIZE
       /\ request' = [request EXCEPT ![s] = r]
  /\ Goto(s, "decode")
  /\ UNCHANGED << target, reachable, connects, serverOpen, wrote, closes,
                  legVars >>

\* the first read raises (connection reset)
HandleClientReadError(s) ==
  /\ pc[s] = "read"
  /\ Goto(s, "except")
  /\ UNCHANGED << request, target, reachable, connects, serverOpen, wrote,
                  closes, legVars >>

\* print(f"Received request:\n{request.decode('utf-8')}")
HandleClientDecode(s) ==
  /\ pc[s] = "decode"
  /\ Goto(s, IF Utf8Decode(request[s]).ok THEN "resolve" ELSE "except")
  /\ UNCHANGED << request, target, reachable, connects, serverOpen, wrote,
                  closes, legVars >>

\* variant: the blocklist is consulted for plain requests only
IsBlockedPlainOnly(t) == ~t.none /\ t.port = 80 /\ t.host \in BLOCKED_HOSTS

\* target_host in BLOCKED_HOSTS
IsBlocked(t) == ~t.none /\ t.host \in BLOCKED_HOSTS

\* variant: the test for a missing target is left out
RouteWithoutNoneCheck(req, t) ==
  IF IsBlocked(t) THEN "forbidden"
  ELSE IF StartsWith(req, ConnectToken) THEN "https"
  ELSE "http"

\* the branch handle_client takes once the target is known
Route(req, t) ==
  IF IsBlocked(t) THEN "forbidden"
  ELSE IF t.none THEN "invalid"
  ELSE IF StartsWith(req, ConnectToken) THEN "https"
  ELSE "http"

\* target_host, target_port = get_target_host(request), then the branch
HandleClientDispatch(s) ==
  /\ pc[s] = "resolve"
  /\ target' = [target EXCEPT ![s] = get_target_host(request[s])]
  /\ Goto(s, Route(request[s], target'[s]))
  /\ UNCHANGED << request, reachable, connects, serverOpen, wrote, closes,
                  legVars >>

\* if target_host is None: writer.close(); return
HandleClientInvalid(s) ==
  /\ pc[s] = "invalid"
  /\ Close(s, "writer")
  /\ Goto(s, "done")
  /\ UNCHANGED << request, target, reachable, connects, serverOpen, wrote,
                  legVars >>

\* except Exception: writer.close()
HandleClientExcept(s) ==
  /\ pc[s] = "except"
  /\ Close(s, "writer")
  /\ Goto(s, "done")
  /\ UNCHANGED << request, target, reachable, connects, serverOpen, wrote,
                  legVars >>

\* ------------------------------------------------------------------------
\* send_forbidden
\* ------------------------------------------------------------------------
\* writer.write(response.encode('utf-8'))
SendForbiddenWrite(s) ==
  /\ pc[s] = "forbidden"
  /\ Write(s, "writer", Utf8Encode(ForbiddenText))
  /\ Goto(s, "forbidden_drain")
  /\ UNCHANGED << request, target, reachable, connects, serverOpen, closes,
                  legVars >>

\* await writer.drain()
SendForbiddenDrain(s) ==
  /\ pc[s] = "forbidden_drain"
  /\ Goto(s, "forbidden_close")
  /\ UNCHANGED << request, target, reachable, connects, serverOpen, wrote,
                  closes, legVars >>

\* drain raises: send_forbidden is not inside a try of its own, the
\* exception reaches the except clause of handle_client
SendForbiddenDrainError(s) ==
  /\ pc[s] = "forbidden_drain"
  /\ Goto(s, "except")
  /\ UNCHANGED << request, target, reachable, connects, serverOpen, wrote,
                  closes, legVars >>

\* writer.close(), then both send_forbidden and its caller return
SendForbiddenClose(s) ==
  /\ pc[s] = "forbidden_close"
  /\ Close(s, "writer")
  /\ Goto(s, "done")
  /\ UNCHANGED << request, target, reachable, connects, serverOpen, wrote,
                  legVars >>

\* ------------------------------------------------------------------------
\* handle_https
\* ------------------------------------------------------------------------
\* variant: the 200 response is not written before the tunnel is set up
HandleHttpsNotEstablished(s) ==
  /\ pc[s] = "https"
  /\ Goto(s, IF IsBlocked(target[s]) THEN "forbidden" ELSE "https_drain")
  /\ UNCHANGED << request, target, reachable, connects, serverOpen, wrote,
                  closes, legVars >>

\* the blocklist check at the top of handle_https, then
\* writer.write(b"HTTP/1.1 200 Connection Established\r\n\r\n")
HandleHttpsEstablished(s) ==
  /\ pc[s] = "https"
  /\ IF IsBlocked(target[s])
     THEN Goto(s, "forbidden") /\ UNCHANGED wrote
     ELSE Write(s, "writer", Established200) /\ Goto(s, "https_drain")
  /\ UNCHANGED << request, target, reachable, connects, serverOpen, closes,
                  legVars >>

\* await writer.drain()
HandleHttpsDrain(s) ==
  /\ pc[s] = "https_drain"
  /\ Goto(s, "https_connect")
  /\ UNCHANGED << request, target, reachable, connects, serverOpen, wrote,
                  closes, legVars >>

HandleHttpsDrainError(s) ==
  /\ pc[s] = "https_drain"
  /\ Goto(s, "https_except")
  /\ UNCHANGED << request, target, reachable, connects, serverOpen, wrote,
                  closes, legVars >>

\* server_reader, server_writer = await asyncio.open_connection(host, port)
HandleHttpsConnect(s) ==
  /\ pc[s] = "https_connect"
  /\ connects' = [connects EXCEPT
                    ![s] = Append(@, << target[s].host, target[s].port >>)]
  /\ serverOpen' = [serverOpen EXCEPT ![s] = reachable[s]]
  /\ Goto(s, IF reachable[s] THEN "https_gather" ELSE "https_except")
  /\ UNCHANGED << request, target, reachable, wrote, closes, legVars >>

\* variant: the bytes of the first read that follow the request head are
\* handed to the destination before the relays start
HandleHttpsGatherWithRest(s) ==
  /\ pc[s] = "https_gather"
  /\ LET ends == { i \in 1..(Len(request[s]) - 3) :
                     SubSeq(request[s], i, i + 3) = <<13,10,13,10>> }
         first == CHOOSE i \in ends : \A j \in ends : i <= j
     IN Write(s, "server_writer",
              IF ends = {} THEN << >>
              ELSE SubSeq(request[s], first + 4, Len(request[s])))
  /\ legPc' = [legPc EXCEPT ![s] = [d \in Legs |-> "read"]]
  /\ Goto(s, "https_join")
  /\ UNCHANGED << request, target, reachable, connects, serverOpen, closes,
                  legData, legRead, legExit >>

\* asyncio.gather(relay(reader, server_writer), relay(server_reader, writer))
\* starts both relays
HandleHttpsGather(s) ==
  /\ pc[s] = "https_gather"
  /\ legPc' = [legPc EXCEPT ![s] = [d \in Legs |-> "read"]]
  /\ Goto(s, "https_join")
  /\ UNCHANGED << request, target, reachable, connects, serverOpen, wrote,
                  closes, legData, legRead, legExit >>

\* variant: the await completes as soon as one of the relays has finished
HandleHttpsJoinFirstCompleted(s) ==
  /\ pc[s] = "https_join"
  /\ \E d \in Legs : legPc[s][d] = "done"
  /\ Goto(s, "done")
  /\ UNCHANGED << request, target, reachable, connects, serverOpen, wrote,
                  closes, legVars >>

\* the await of the gather completes when both relays have finished;
\* relay raises nothing, so handle_https and handle_client return
HandleHttpsJoin(s) ==
  /\ pc[s] = "https_join"
  /\ \A d \in Legs : legPc[s][d] = "done"
  /\ Goto(s, "done")
  /\ UNCHANGED << request, target, reachable, connects, serverOpen, wrote,
                  closes, legVars >>

\* except Exception: writer.close()
HandleHttpsExcept(s) ==
  /\ pc[s] = "https_except"
  /\ Close(s, "writer")
  /\ Goto(s, "done")
  /\ UNCHANGED << request, target, reachable, connects, serverOpen, wrote,
                  legVars >>

\* ------------------------------------------------------------------------
\* forward_http
\* ------------------------------------------------------------------------
\* server_reader, server_writer = await asyncio.open_connection(host, port)
ForwardHttpConnect(s) ==
  /\ pc[s] = "http"
  /\ connects' = [connects EXCEPT
                    ![s] = Append(@, << target[s].host, target[s].port >>)]
  /\ serverOpen' = [serverOpen EXCEPT ![s] = reachable[s]]
  /\ Goto(s, IF reachable[s] THEN "http_write" ELSE "http_finally")
  /\ UNCHANGED << request, target, reachable, wrote, closes, legVars >>

\* server_writer.write(request)
ForwardHttpWrite(s) ==
  /\ pc[s] = "http_write"
  /\ Write(s, "server_writer", request[s])
  /\ Goto(s, "http_drain")
  /\ UNCHANGED << request, target, reachable, connects, serverOpen, closes,
                  legVars >>

\* await server_writer.drain()
ForwardHttpDrain(s) ==
  /\ pc[s] = "http_drain"
  /\ Goto(s, "http_gather")
  /\ UNCHANGED << request, target, reachable, connects, serverOpen, wrote,
                  closes, legVars >>

ForwardHttpDrainError(s) ==
  /\ pc[s] = "http_drain"
  /\ Goto(s, "http_finally")
  /\ UNCHANGED << request, target, reachable, connects, serverOpen, wrote,
                  closes, legVars >>

\* variant: a relay is started in each direction, as in handle_https
ForwardHttpGatherBoth(s) ==
  /\ pc[s] = "http_gather"
  /\ legPc' = [legPc EXCEPT ![s] = [d \in Legs |-> "read"]]
  /\ Goto(s, "http_join")
  /\ UNCHANGED << request, target, reachable, connects, serverOpen, wrote,
                  closes, legData, legRead, legExit >>

\* asyncio.gather(relay(server_reader, writer)) starts the one relay
ForwardHttpGather(s) ==
  /\ pc[s] = "http_gather"
  /\ legPc' = [legPc EXCEPT ![s]["s2c"] = "read"]
  /\ Goto(s, "http_join")
  /\ UNCHANGED << request, target, reachable, connects, serverOpen, wrote,
                  closes, legData, legRead, legExit >>

\* the await of the gather completes when the relay has finished
ForwardHttpJoin(s) ==
  /\ pc[s] = "http_join"
  /\ legPc[s]["s2c"] = "done"
  /\ Goto(s, "http_finally")
  /\ UNCHANGED << request, target, reachable, connects, serverOpen, wrote,
                  closes, legVars >>

\* finally: writer.close()
ForwardHttpFinally(s) ==
  /\ pc[s] = "http_finally"
  /\ Close(s, "writer")
  /\ Goto(s, "done")
  /\ UNCHANGED << request, target, reachable, connects, serverOpen, wrote,
                  legVars >>

\* ------------------------------------------------------------------------
\* relay
\* ------------------------------------------------------------------------
\* variant: the next read is also issued while the chunk read before is
\* still waiting to be written
RelayReadAhead(s, d) ==
  /\ legPc[s][d] \in {"read", "write"}
  /\ \E c \in Chunks :
       /\ Len(legRead[s][d]) + Len(c) <= MaxRelayBytes
       /\ legData' = [legData EXCEPT ![s][d] = c]
       /\ legRead' = [legRead EXCEPT ![s][d] = @ \o c]
  /\ legPc' = [legPc EXCEPT ![s][d] = "write"]
  /\ UNCHANGED << handlerVars, reachable, wrote, closes, legExit >>

\* data = await reader.read(BUFFER_SIZE) returns a non-empty chunk
RelayRead(s, d) ==
  /\ legPc[s][d] = "read"
  /\ \E c \in Chunks :
       /\ Len(legRead[s][d]) + Len(c) <= MaxRelayBytes
       /\ legData' = [legData EXCEPT ![s][d] = c]
       /\ legRead' = [legRead EXCEPT ![s][d] = @ \o c]
  /\ legPc' = [legPc EXCEPT ![s][d] = "write"]
  /\ UNCHANGED << handlerVars, reachable, wrote, closes, legExit >>

\* the read returns b'': if not data: break
RelayReadEof(s, d) ==
  /\ legPc[s][d] = "read"
  /\ legData' = [legData EXCEPT ![s][d] = << >>]
  /\ legExit' = [legExit EXCEPT ![s][d] = "eof"]
  /\ legPc' = [legPc EXCEPT ![s][d] = "finally"]
  /\ UNCHANGED << handlerVars, reachable, wrote, closes, legRead >>

\* variant: a read error ends relay without its finally clause
RelayReadErrorUnclosed(s, d) ==
  /\ legPc[s][d] = "read"
  /\ legExit' = [legExit EXCEPT ![s][d] = "read_error"]
  /\ legPc' = [legPc EXCEPT ![s][d] = "done"]
  /\ UNCHANGED << handlerVars, reachable, wrote, closes, legData, legRead >>

\* the read raises: data keeps its previous value, the except clause prints
RelayReadError(s, d) ==
  /\ legPc[s][d] = "read"
  /\ legExit' = [legExit EXCEPT ![s][d] = "read_error"]
  /\ legPc' = [legPc EXCEPT ![s][d] = "finally"]
  /\ UNCHANGED << handlerVars, reachable, wrote, closes, legData, legRead >>

\* variant: only the first byte of the chunk is written
RelayWriteFirstByte(s, d) ==
  /\ legPc[s][d] = "write"
  /\ Write(s, Sink(d), SubSeq(legData[s][d], 1, 1))
  /\ legPc' = [legPc EXCEPT ![s][d] = "drain"]
  /\ UNCHANGED << handlerVars, reachable, closes, legData, legRead, legExit >>

\* writer.write(data)
RelayWrite(s, d) ==
  /\ legPc[s][d] = "write"
  /\ Write(s, Sink(d), legData[s][d])
  /\ legPc' = [legPc EXCEPT ![s][d] = "drain"]
  /\ UNCHANGED << handlerVars, reachable, closes, legData, legRead, legExit >>

\* await writer.drain(), then the next iteration
RelayDrain(s, d) ==
  /\ legPc[s][d] = "drain"
  /\ legPc' = [legPc EXCEPT ![s][d] = "read"]
  /\ UNCHANGED << handlerVars, reachable, wrote, closes, legData, legRead,
                  legExit >>

RelayDrainError(s, d) ==
  /\ legPc[s][d] = "drain"
  /\ legExit' = [legExit EXCEPT ![s][d] = "write_error"]
  /\ legPc' = [legPc EXCEPT ![s][d] = "finally"]
  /\ UNCHANGED << handlerVars, reachable, wrote, closes, legData, legRead >>

\* variant: the finally clause closes both stream writers of the session
RelayFinallyClosesBoth(s, d) ==
  /\ legPc[s][d] = "finally"
  /\ closes' = [closes EXCEPT ![s] = [w \in Writers |-> @[w] + 1]]
  /\ legPc' = [legPc EXCEPT ![s][d] = "done"]
  /\ UNCHANGED << handlerVars, reachable, wrote, legData, legRead, legExit >>

\* finally: writer.close()
RelayFinally(s, d) ==
  /\ legPc[s][d] = "finally"
  /\ Close(s, Sink(d))
  /\ legPc' = [legPc EXCEPT ![s][d] = "done"]
  /\ UNCHANGED << handlerVars, reachable, wrote, legData, legRead, legExit >>

\* ------------------------------------------------------------------------
\* Specification
\* ------------------------------------------------------------------------
Next ==
  \E s \in DOMAIN pc :
    \/ HandleClientRead(s)
    \/ HandleClientReadError(s)
    \/ HandleClientDecode(s)
    \/ HandleClientDispatch(s)
    \/ HandleClientInvalid(s)
    \/ HandleClientExcept(s)
    \/ SendForbiddenWrite(s)
    \/ SendForbiddenDrain(s)
    \/ SendForbiddenDrainError(s)
    \/ SendForbiddenClose(s)
    \/ HandleHttpsEstablished(s)
    \/ HandleHttpsDrain(s)
    \/ HandleHttpsDrainError(s)
    \/ HandleHttpsConnect(s)
    \/ HandleHttpsGather(s)
    \/ HandleHttpsJoin(s)
    \/ HandleHttpsExcept(s)
    \/ ForwardHttpConnect(s)
    \/ ForwardHttpWrite(s)
    \/ ForwardHttpDrain(s)
    \/ ForwardHttpDrainError(s)
    \/ ForwardHttpGather(s)
    \/ ForwardHttpJoin(s)
    \/ ForwardHttpFinally(s)
    \/ \E d \in Legs :
         \/ RelayRead(s, d)
         \/ RelayReadEof(s, d)
         \/ RelayReadError(s, d)
         \/ RelayWrite(s, d)
         \/ RelayDrain(s, d)
         \/ RelayDrainError(s, d)
         \/ RelayFinally(s, d)

Spec == Init /\ [][Next]_vars

\* the steps of relay coroutine d of session s
RelayStep(s, d) ==
  \/ RelayRead(s, d)
  \/ RelayReadEof(s, d)
  \/ RelayReadError(s, d)
  \/ RelayWrite(s, d)
  \/ RelayDrain(s, d)
  \/ RelayDrainError(s, d)
  \/ RelayFinally(s, d)

\* the steps of the handler from the start of the relays to its return
JoinStep(s) ==
  \/ HandleHttpsGather(s)
  \/ HandleHttpsJoin(s)
  \/ ForwardHttpGather(s)
  \/ ForwardHttpJoin(s)
  \/ ForwardHttpFinally(s)

\* once a session relays, the event loop runs each of its coroutines
\* whenever it is ready, and every pending read and drain of a relay
\* completes (with data, end-of-stream or an error)
FairSpec ==
  /\ Spec
  /\ \A s \in Sessions :
       /\ WF_vars(JoinStep(s))
       /\ \A d \in Legs : WF_vars(RelayStep(s, d))

TypeOK ==
  /\ pc \in [Sessions ->
       {"read", "decode", "resolve", "invalid", "except", "forbidden",
        "forbidden_drain", "forbidden_close", "https", "https_drain",
        "https_connect", "https_gather", "https_join", "https_except",
        "http", "http_write", "http_drain", "http_gather", "http_join",
        "http_finally", "done"}]
  /\ \A s \in Sessions :
       /\ request[s] \in FirstReads
       /\ serverOpen[s] \in BOOLEAN
       /\ \A w \in Writers : closes[s][w] \in 0..3
       /\ \A d \in Legs :
            /\ legPc[s][d] \in {"off", "read", "write", "drain", "finally",
                                "done"}
            /\ legExit[s][d] \in {"none", "eof", "read_error", "write_error"}
            /\ Len(legRead[s][d]) <= MaxRelayBytes

\* ------------------------------------------------------------------------
\* Vocabulary of the properties
\* ------------------------------------------------------------------------
IsPrefix(a, b) == StartsWith(b, a)

\* index at which pat first occurs in s, 0 when it does not occur
FindSub(s, pat) ==
  LET hits == { i \in 1..(Len(s) - Len(pat) + 1) :
                  SubSeq(s, i, i + Len(pat) - 1) = pat }
  IN IF hits = {} THEN 0 ELSE CHOOSE i \in hits : \A j \in hits : i <= j

\* "\r\n\r\n"
BlankLine == <<13,10,13,10>>
\* "Content-Length: "
ContentLengthName ==
  <<67,111,110,116,101,110,116,45,76,101,110,103,116,104,58,32>>

\* the bytes of an HTTP message that follow its first blank line
BodyOf(msg) == SubSeq(msg, FindSub(msg, BlankLine) + 4, Len(msg))

\* the number its Content-Length header declares
DeclaredLength(msg) ==
  LET i    == FindSub(msg, ContentLengthName)
      rest == SubSeq(msg, i + Len(ContentLengthName), Len(msg))
  IN PyInt(SubSeq(rest, 1, FirstIndex(rest, 13) - 1)).val

\* the 403 response as it goes on the wire
Forbidden403 == Utf8Encode(ForbiddenText)

IsConnect(s) == StartsWith(request[s], ConnectToken)
Denied(s) == ~target[s].none /\ target[s].host \in BLOCKED_HOSTS
ConnectFailed(s) == connects[s] # << >> /\ ~serverOpen[s]
Tunnel(s) == IsConnect(s) /\ \A d \in Legs : legPc[s][d] # "off"

\* the chunk a relay has read and not yet handed to write()
Pending(s, d) == IF legPc[s][d] = "write" THEN legData[s][d] ELSE << >>

\* a plain request as a client means it: not CONNECT, with a head (the
\* bytes up to the first blank line) that is text and names a host in a
\* Host: line; whatever follows the head is payload
HeadOf(req) ==
  LET i == FindSub(req, BlankLine)
  IN IF i = 0 THEN req ELSE SubSeq(req, 1, i + 3)

PlainTarget(req) ==
  IF StartsWith(req, ConnectToken) \/ ~Utf8Decode(HeadOf(req)).ok
  THEN NoTarget
  ELSE HostTarget(Utf8Decode(HeadOf(req)).str)

\* ------------------------------------------------------------------------
\* Properties
\* ------------------------------------------------------------------------
\* C1: once handle_client has returned, the client connection has been
\* closed and, if an outbound connection was opened, so has the outbound
\* connection.
C1_AllClosedOnReturn ==
  \A s \in DOMAIN pc :
    pc[s] = "done" =>
      /\ closes[s]["writer"] > 0
      /\ (serverOpen[s] => closes[s]["server_writer"] > 0)

\* C2: a session whose resolved host is in BLOCKED_HOSTS writes the 403
\* response to the client and nothing else, opens no outbound connection,
\* and has closed the client connection when it ends.
C2_DeniedGetsOnly403 ==
  \A s \in DOMAIN pc :
    Denied(s) =>
      /\ wrote[s]["writer"] \in { << >>, Forbidden403 }
      /\ wrote[s]["server_writer"] = << >>
      /\ connects[s] = << >> /\ ~serverOpen[s]
      /\ \A d \in Legs : legPc[s][d] = "off"
      /\ (pc[s] = "done" =>
            wrote[s]["writer"] = Forbidden403 /\ closes[s]["writer"] > 0)

C2_Witness ==
  \E s \in DOMAIN pc :
    /\ pc[s] = "done" /\ IsConnect(s) /\ Denied(s)
    /\ wrote[s]["writer"] = Forbidden403 /\ closes[s]["writer"] = 1

\* C3: in the 403 response the client receives, the value of the
\* Content-Length header equals the number of bytes after the blank line.
C3_ContentLengthIsBodyLength ==
  \A s \in DOMAIN pc :
    (Denied(s) /\ wrote[s]["writer"] # << >>) =>
      DeclaredLength(wrote[s]["writer"]) = Len(BodyOf(wrote[s]["writer"]))

\* C4: open_connection is called only with a non-empty host and a port in
\* 1..65535.
C4_ConnectOnlyToValidDestination ==
  \A s \in DOMAIN pc :
    \A i \in 1..Len(connects[s]) :
      connects[s][i][1] # << >> /\ connects[s][i][2] \in 1..65535

\* C5: when no destination can be resolved from the first read, nothing is
\* ever written to the client, no outbound connection is opened, and the
\* client connection has been closed when the session ends.
C5_UnresolvableClosedSilently ==
  \A s \in DOMAIN pc :
    (pc[s] # "read" /\ get_target_host(request[s]).none) =>
      /\ wrote[s]["writer"] = << >>
      /\ connects[s] = << >> /\ ~serverOpen[s]
      /\ (pc[s] = "done" => closes[s]["writer"] > 0)

C5_Witness ==
  \E s \in DOMAIN pc :
    /\ pc[s] = "done" /\ request[s] # << >>
    /\ ~Utf8Decode(request[s]).ok
    /\ wrote[s]["writer"] = << >> /\ closes[s]["writer"] = 1

\* C6: when the outbound connect fails, in CONNECT mode as in forward mode,
\* the client has been sent no bytes at all, and the client connection has
\* been closed when the session ends.
C6_ConnectFailureIsSilent ==
  \A s \in DOMAIN pc :
    ConnectFailed(s) =>
      /\ wrote[s]["writer"] = << >>
      /\ (pc[s] = "done" => closes[s]["writer"] > 0)

\* C7: in a CONNECT session to an allowed destination nothing is relayed in
\* either direction (no relay runs, no byte reaches the destination, no
\* byte follows to the client) unless the 200 literal is the first thing
\* written to the client.
C7_EstablishedBeforeRelay ==
  \A s \in DOMAIN pc :
    (IsConnect(s) /\ ~Denied(s)) =>
      ( ( \/ wrote[s]["server_writer"] # << >>
          \/ \E d \in Legs : legPc[s][d] # "off" \/ legRead[s][d] # << >> )
        => StartsWith(wrote[s]["writer"], Established200) )

C7_Witness ==
  \E s \in DOMAIN pc :
    /\ IsConnect(s)
    /\ wrote[s]["server_writer"] # << >>
    /\ Len(wrote[s]["writer"]) > Len(Established200)

\* C8: in a tunnel, at every moment and in each direction, the bytes written
\* to the sink are a prefix of the bytes read from the source, and what is
\* missing is exactly the chunk the relay holds and has not yet written.
C8_PerDirectionOrder ==
  \A s \in DOMAIN pc :
    Tunnel(s) =>
      /\ IsPrefix(wrote[s]["server_writer"], legRead[s]["c2s"])
      /\ wrote[s]["server_writer"] \o Pending(s, "c2s") = legRead[s]["c2s"]
      /\ IsPrefix(wrote[s]["writer"], Established200 \o legRead[s]["s2c"])
      /\ wrote[s]["writer"] \o Pending(s, "s2c")
           = Established200 \o legRead[s]["s2c"]

C8_Witness ==
  \E s \in DOMAIN pc :
    /\ Tunnel(s)
    /\ wrote[s]["server_writer"] = <<1, 2>>
    /\ wrote[s]["writer"] = Established200 \o <<2, 1>>
    /\ legPc[s]["c2s"] = "drain" /\ legPc[s]["s2c"] = "drain"

\* C9: a plain request to an allowed destination that accepts the
\* connection, whatever bytes follow its head, has reached the destination
\* byte for byte when the session ends, and the client has been written
\* exactly the bytes read from the destination.
C9_ForwardIsByteExact ==
  \A s \in DOMAIN pc :
    ( /\ pc[s] = "done"
      /\ ~PlainTarget(request[s]).none
      /\ PlainTarget(request[s]).host \notin BLOCKED_HOSTS
      /\ reachable[s] )
    => /\ wrote[s]["server_writer"] = request[s]
       /\ wrote[s]["writer"] = legRead[s]["s2c"]

\* C10: once a relay has read end-of-stream, the session eventually is
\* over with both the client and the destination connection closed.
C10_EofLeadsToAllClosed ==
  \A s \in Sessions :
    (\E d \in Legs : legExit[s][d] = "eof")
      ~> ( /\ pc[s] = "done"
           /\ closes[s]["writer"] > 0
           /\ closes[s]["server_writer"] > 0 )

\* ------------------------------------------------------------------------
\* get_target_host on its own: the inputs it is applied to
\* ------------------------------------------------------------------------
\* longest port text built from PortDigits
MaxPortDigits == 2

\* '0', '4', '8'
PortDigits == {48, 52, 56}

\* decimal port texts: every digit string over PortDigits up to the bound,
\* and '443', '8080', '65535', '0443'
PortTexts ==
  UNION { [1..n -> PortDigits] : n \in 1..MaxPortDigits }
  \cup { <<52,52,51>>, <<56,48,56,48>>, <<54,53,53,51,53>>, <<48,52,52,51>> }

\* 'h', 'a.io', 'www.example.com', '10.0.0.1'
ParseHosts == { <<104>>, <<97,46,105,111>>, BlockedName, <<49,48,46,48,46,48,46,49>> }

\* what follows the authority of a CONNECT line:
\* ' HTTP/1.1\r\n\r\n', '\r\n\r\n', ' HTTP/1.1\n\n', nothing,
\* ' HTTP/1.1\r\nHost: a.io\r\n\r\n', ' HTTP/1.1\r\n\r\nhi'
ConnectTails ==
  { <<32,72,84,84,80,47,49,46,49,13,10,13,10>>,
    <<13,10,13,10>>,
    <<32,72,84,84,80,47,49,46,49,10,10>>,
    << >>,
    <<32,72,84,84,80,47,49,46,49,13,10,72,111,115,116,58,32,97,46,105,111,13,10,13,10>>,
    <<32,72,84,84,80,47,49,46,49,13,10,13,10,104,105>> }

\* b'CONNECT ' host b':' port tail
ConnectLine(h, p, tail) ==
  <<67,79,78,78,69,67,84,32>> \o h \o <<58>> \o p \o tail

ValidConnects ==
  { ConnectLine(h, p, tl) : h \in ParseHosts, p \in PortTexts,
                            tl \in ConnectTails }

\* what precedes the Host: line of a plain request:
\* 'GET / HTTP/1.1\r\n', 'GET / HTTP/1.1\n', nothing,
\* 'POST /x HTTP/1.1\r\nX-Forwarded-Host: b\r\n',
\* 'GET / HTTP/1.1\r\nhost: b\r\n'
HostPrefixes ==
  { <<71,69,84,32,47,32,72,84,84,80,47,49,46,49,13,10>>,
    <<71,69,84,32,47,32,72,84,84,80,47,49,46,49,10>>,
    << >>,
    <<80,79,83,84,32,47,120,32,72,84,84,80,47,49,46,49,13,10,88,45,70,111,114,119,97,114,100,101,100,45,72,111,115,116,58,32,98,13,10>>,
    <<71,69,84,32,47,32,72,84,84,80,47,49,46,49,13,10,104,111,115,116,58,32,98,13,10>> }

\* what follows the host token: nothing, '\r\n\r\n', '\n\n', ' \r\n\r\n',
\* ' x\r\n\r\n', '\r\nHost: b\r\n\r\n', '\r\n\r\n' and U+00E9 in UTF-8
HostSuffixes ==
  { << >>,
    <<13,10,13,10>>,
    <<10,10>>,
    <<32,13,10,13,10>>,
    <<32,120,13,10,13,10>>,
    <<13,10,72,111,115,116,58,32,98,13,10,13,10>>,
    <<13,10,13,10,195,169>> }

\* the hosts of ParseHosts and 'h:8080'
HostTokens == ParseHosts \cup { <<104,58,56,48,56,48>> }

\* prefix b'Host: ' token suffix
HostRequest(pre, h, suf) == pre \o <<72,111,115,116,58,32>> \o h \o suf

ValidHostRequests ==
  { HostRequest(pre, h, suf) : pre \in HostPrefixes, h \in HostTokens,
                               suf \in HostSuffixes }

\* CONNECT requests without a second token: 'CONNECT', 'CONNECT\r\n\r\n'
NoSecondToken == { ConnectToken, ConnectToken \o <<13,10,13,10>> }

\* authorities without a colon: 'h', 'h443'
NoColon == { <<104>>, <<104,52,52,51>> }
\* with more than one colon: 'a:b:c', '[::1]:443', 'h::443'
ManyColons == { <<97,58,98,58,99>>, <<91,58,58,49,93,58,52,52,51>>, <<104,58,58,52,52,51>> }
\* with a port that is no number: 'h:x', 'h:', 'h:44x', 'h:https'
BadPort == { <<104,58,120>>, <<104,58>>, <<104,58,52,52,120>>, <<104,58,104,116,116,112,115>> }

MalformedConnects ==
  NoSecondToken
  \cup { <<67,79,78,78,69,67,84,32>> \o a \o tl :
           a \in NoColon \cup ManyColons \cup BadPort, tl \in ConnectTails }

\* requests without a line that starts with 'Host:': the empty read,
\* 'GET / HTTP/1.1\r\n\r\n', one with 'host: h', one with 'X-Host: h'
NoHostLine ==
  { << >>,
    <<71,69,84,32,47,32,72,84,84,80,47,49,46,49,13,10,13,10>>,
    <<71,69,84,32,47,32,72,84,84,80,47,49,46,49,13,10,104,111,115,116,58,32,104,13,10,13,10>>,
    <<71,69,84,32,47,32,72,84,84,80,47,49,46,49,13,10,88,45,72,111,115,116,58,32,104,13,10,13,10>> }

\* byte strings that are not UTF-8: 0xFF, a lead byte without continuation,
\* an overlong form, and otherwise valid requests followed by 0xFF
Undecodable ==
  { <<255>>, <<195>>, <<192,128>> }
  \cup { r \o <<255>> :
           r \in { ConnectLine(<<104>>, <<52,52,51>>, <<32,72,84,84,80,47,49,46,49,13,10,13,10>>),
                   HostRequest(<<71,69,84,32,47,32,72,84,84,80,47,49,46,49,13,10>>, <<104>>, <<13,10,13,10>>) } }

Malformed == MalformedConnects \cup NoHostLine \cup Undecodable

ParseInputs == ValidConnects \cup ValidHostRequests \cup Malformed

ParseInit ==
  /\ pc = [s \in Sessions |-> "call"]
  /\ request \in [Sessions -> ParseInputs]
  /\ target = [s \in Sessions |-> NoTarget]
  /\ reachable = [s \in Sessions |-> FALSE]
  /\ connects = [s \in Sessions |-> << >>]
  /\ serverOpen = [s \in Sessions |-> FALSE]
  /\ wrote = [s \in Sessions |-> [w \in Writers |-> << >>]]
  /\ closes = [s \in Sessions |-> [w \in Writers |-> 0]]
  /\ legPc = [s \in Sessions |-> [d \in Legs |-> "off"]]
  /\ legData = [s \in Sessions |-> [d \in Legs |-> << >>]]
  /\ legRead = [s \in Sessions |-> [d \in Legs |-> << >>]]
  /\ legExit = [s \in Sessions |-> [d \in Legs |-> "none"]]

\* one call of get_target_host(request)
GetTargetHost(s) ==
  /\ pc[s] = "call"
  /\ target' = [target EXCEPT ![s] = get_target_host(request[s])]
  /\ Goto(s, "returned")
  /\ UNCHANGED << request, reachable, connects, serverOpen, wrote, closes,
                  legVars >>

ParseNext == \E s \in DOMAIN pc : GetTargetHost(s)

ParseSpec == ParseInit /\ [][ParseNext]_vars

\* the number a string of decimal digits denotes
RECURSIVE Decimal(_)
Decimal(p) ==
  IF p = << >> THEN 0
  ELSE Decimal(SubSeq(p, 1, Len(p) - 1)) * 10 + (p[Len(p)] - 48)

\* C11: for a request whose first line is 'CONNECT host:port' followed by
\* nothing, a line end or a version, get_target_host returns that host and
\* the integer the decimal port text denotes.
C11_ConnectLineResolved ==
  \A s \in DOMAIN pc :
    pc[s] = "returned" =>
      \A h \in ParseHosts, p \in PortTexts, tl \in ConnectTails :
        request[s] = ConnectLine(h, p, tl)
          => target[s] = Target(h, Decimal(p))

C11_Witness ==
  \E s \in DOMAIN pc :
    /\ pc[s] = "returned"
    /\ request[s] = ConnectLine(<<97,46,105,111>>, <<56,48,56,48>>, <<13,10,13,10>>)
    /\ target[s] = Target(<<97,46,105,111>>, 8080)

\* C12: for a request that does not begin with CONNECT and whose first
\* line starting with 'Host:' is 'Host: h', get_target_host returns (h, 80),
\* h being the token between the space after the colon and the next
\* whitespace.
C12_HostHeaderResolved ==
  \A s \in DOMAIN pc :
    pc[s] = "returned" =>
      \A pre \in HostPrefixes, h \in HostTokens, suf \in HostSuffixes :
        request[s] = HostRequest(pre, h, suf) => target[s] = Target(h, 80)

C12_Witness ==
  \E s \in DOMAIN pc :
    /\ pc[s] = "returned"
    /\ request[s] = HostRequest(<<71,69,84,32,47,32,72,84,84,80,47,49,46,49,13,10>>, <<97,46,105,111>>, <<13,10,13,10>>)
    /\ target[s] = Target(<<97,46,105,111>>, 80)

\* C13: get_target_host returns for every input, either (None, None) or a
\* host text with an integer port, and it returns (None, None) for a
\* CONNECT line without second token, without colon, with several colons
\* or with a port that is no number, for a request without Host: line and
\* for bytes that are not UTF-8.
C13_TotalAndNoneOnMalformed ==
  \A s \in DOMAIN pc :
    pc[s] = "returned" =>
      /\ target[s].none \in BOOLEAN
      /\ target[s].none => target[s] = NoTarget
      /\ ~target[s].none =>
           /\ DOMAIN target[s].host = 1..Len(target[s].host)
           /\ target[s].port \in Int
      /\ request[s] \in Malformed => target[s] = NoTarget

C13_Witness ==
  \E s \in DOMAIN pc :
    /\ pc[s] = "returned"
    /\ request[s] = <<67,79,78,78,69,67,84,32>> \o <<91,58,58,49,93,58,52,52,51>> \o <<32,72,84,84,80,47,49,46,49,13,10,13,10>>
    /\ target[s] = NoTarget

\* ------------------------------------------------------------------------
\* The relays of a session
\* ------------------------------------------------------------------------
Other(d) == IF d = "c2s" THEN "s2c" ELSE "c2s"

LegsStarted(s) == \E d \in Legs : legPc[s][d] # "off"

\* number of bytes the handler itself has written to the sink of relay d
\* before the relay starts: the 200 literal on the client side of a tunnel
Preface(s, d) ==
  IF IsConnect(s) /\ d = "s2c" THEN Len(Established200) ELSE 0

\* number of bytes relay d has read and not yet handed to write()
Unwritten(s, d) ==
  Len(legRead[s][d]) - (Len(wrote[s][Sink(d)]) - Preface(s, d))

\* C15: in a CONNECT tunnel the handler stays in the await of the gather,
\* and the session is not over, as long as one of the two relays has not
\* finished, whatever made the other one finish.
C15_StructuredJoin ==
  \A s \in DOMAIN pc :
    Tunnel(s) =>
      /\ pc[s] \in {"https_join", "done"}
      /\ (\E d \in Legs : legPc[s][d] # "done") => pc[s] = "https_join"
      /\ pc[s] = "done" => \A d \in Legs : legPc[s][d] = "done"

C15_Witness ==
  \E s \in DOMAIN pc :
    /\ Tunnel(s)
    /\ pc[s] = "https_join"
    /\ legPc[s]["s2c"] = "done" /\ legExit[s]["s2c"] = "read_error"
    /\ legPc[s]["c2s"] = "drain" /\ wrote[s]["server_writer"] # << >>

\* C16: when a relay leaves its loop (end-of-stream, read error, write or
\* drain error) the step moves that relay to its finally clause and
\* nothing else: the handler and the other relay stay where they are; the
\* handler never enters an except clause once relays run; and a relay that
\* has finished has closed its sink.
C16_RelayFaultContained ==
  /\ [](\A s \in DOMAIN pc :
          /\ LegsStarted(s) =>
               pc[s] \in {"https_join", "http_join", "http_finally", "done"}
          /\ \A d \in Legs :
               /\ legExit[s][d] # "none" <=> legPc[s][d] \in {"finally", "done"}
               /\ legPc[s][d] = "done" => closes[s][Sink(d)] > 0)
  /\ [][\A s \in DOMAIN pc : \A d \in Legs :
          legExit'[s][d] # legExit[s][d] =>
            /\ legPc'[s][d] = "finally"
            /\ closes' = closes
            /\ pc' = pc
            /\ legPc'[s][Other(d)] = legPc[s][Other(d)]
            /\ legExit'[s][Other(d)] = legExit[s][Other(d)]]_vars

C16_Witness ==
  \E s \in DOMAIN pc :
    /\ pc[s] = "https_join"
    /\ legPc[s]["c2s"] = "done" /\ legExit[s]["c2s"] = "write_error"
    /\ closes[s]["server_writer"] = 1
    /\ legPc[s]["s2c"] = "write" /\ legExit[s]["s2c"] = "none"
    /\ closes[s]["writer"] = 0

\* C17: a relay holds at most one chunk, of at most BUFFER_SIZE bytes, that
\* it has read and not yet written (none unless it is about to write); a
\* read that returns data is issued only when nothing is unwritten, and
\* a relay comes to a read only at its start or from a completed drain.
C17_Backpressure ==
  /\ [](\A s \in DOMAIN pc : \A d \in Legs :
          legPc[s][d] # "off" =>
            /\ Len(legData[s][d]) <= BUFFER_SIZE
            /\ Unwritten(s, d) =
                 (IF legPc[s][d] = "write" THEN Len(legData[s][d]) ELSE 0))
  /\ [][\A s \in DOMAIN pc : \A d \in Legs :
          /\ legRead'[s][d] # legRead[s][d] =>
               legPc[s][d] = "read" /\ Unwritten(s, d) = 0
          /\ (legPc'[s][d] = "read" /\ legPc[s][d] # "read") =>
               legPc[s][d] \in {"off", "drain"}]_vars

C17_Witness ==
  \E s \in DOMAIN pc : \E d \in Legs :
    /\ legPc[s][d] = "write"
    /\ legData[s][d] # << >>
    /\ Len(legRead[s][d]) > Len(legData[s][d])
    /\ Unwritten(s, d) = Len(legData[s][d])

\* C18: the two relays of a CONNECT session are started together; a plain
\* session never runs the client-to-server relay, reads nothing more from
\* the client, and its destination is written nothing but the first read.
C18_RelaysPerMode ==
  \A s \in DOMAIN pc :
    /\ IsConnect(s) =>
         /\ legPc[s]["c2s"] = "off" <=> legPc[s]["s2c"] = "off"
         /\ pc[s] = "https_join" => Tunnel(s)
    /\ ~IsConnect(s) =>
         /\ legPc[s]["c2s"] = "off"
         /\ legRead[s]["c2s"] = << >>
         /\ wrote[s]["server_writer"] \in { << >>, request[s] }
         /\ pc[s] = "http_join" => legPc[s]["s2c"] # "off"

C18_Witness ==
  \E s \in DOMAIN pc :
    /\ ~IsConnect(s)
    /\ pc[s] = "done"
    /\ request[s] # << >> /\ wrote[s]["server_writer"] = request[s]
    /\ legPc[s]["s2c"] = "done" /\ legRead[s]["s2c"] # << >>
    /\ wrote[s]["writer"] = legRead[s]["s2c"]

\* C19: no step appends to the bytes written to a stream writer on which
\* close() has been called.
C19_NoWriteAfterClose ==
  [][\A s \in DOMAIN pc : \A w \in Writers :
       closes[s][w] > 0 => wrote'[s][w] = wrote[s][w]]_vars

C19_Witness ==
  \E s \in DOMAIN pc :
    /\ IsConnect(s)
    /\ closes[s]["writer"] = 1 /\ wrote[s]["writer"] # Established200
    /\ closes[s]["server_writer"] = 0
    /\ legPc[s]["c2s"] = "drain" /\ wrote[s]["server_writer"] # << >>

\* C20: in a CONNECT session the destination is written only bytes the
\* client-to-server relay has read, which happens after the 200 response;
\* no byte of the first read is among them (the bytes relayed in the model,
\* DataBytes, occur in no request).
C20_FirstReadNotTunnelled ==
  \A s \in DOMAIN pc :
    IsConnect(s) =>
      /\ Len(wrote[s]["server_writer"]) <= Len(legRead[s]["c2s"])
      /\ wrote[s]["server_writer"]
           = SubSeq(legRead[s]["c2s"], 1, Len(wrote[s]["server_writer"]))
      /\ wrote[s]["server_writer"] # << >> =>
           StartsWith(wrote[s]["writer"], Established200)
      /\ \A i \in 1..Len(wrote[s]["server_writer"]) :
           \A k \in 1..Len(request[s]) :
             wrote[s]["server_writer"][i] # request[s][k]

C20_Witness ==
  \E s \in DOMAIN pc :
    /\ request[s] = ConnectRequest(<<104,58,52,52,51>>) \o <<104,105>>
    /\ pc[s] = "done"
    /\ wrote[s]["server_writer"] = <<1, 2>>

\* ------------------------------------------------------------------------
\* Two concurrent sessions: one to a blocklisted host, one to an allowed one
\* ------------------------------------------------------------------------
\* two tasks of handle_client run on the event loop
IsoSessions == {"s1", "s2"}

\* the first read that names the blocklisted host:
\* 'CONNECT www.example.com:443 HTTP/1.1\r\n\r\n'
DeniedReads == { ConnectRequest(BlockedName \o <<58,52,52,51>>) }

\* first reads that name the allowed host h:
\* 'CONNECT h:443 HTTP/1.1\r\n\r\n' and 'GET / HTTP/1.1\r\nHost: h\r\n\r\n'
AllowedReads ==
  { ConnectRequest(<<104,58,52,52,51>>),
    ForwardRequest(<<72,111,115,116,58,32,104>>, << >>) }

\* both tasks are about to read; the allowed destination accepts connections
IsoInit ==
  /\ pc = [s \in IsoSessions |-> "read"]
  /\ request = [s \in IsoSessions |-> << >>]
  /\ target = [s \in IsoSessions |-> NoTarget]
  /\ reachable = [s \in IsoSessions |-> TRUE]
  /\ connects = [s \in IsoSessions |-> << >>]
  /\ serverOpen = [s \in IsoSessions |-> FALSE]
  /\ wrote = [s \in IsoSessions |-> [w \in Writers |-> << >>]]
  /\ closes = [s \in IsoSessions |-> [w \in Writers |-> 0]]
  /\ legPc = [s \in IsoSessions |-> [d \in Legs |-> "off"]]
  /\ legData = [s \in IsoSessions |-> [d \in Legs |-> << >>]]
  /\ legRead = [s \in IsoSessions |-> [d \in Legs |-> << >>]]
  /\ legExit = [s \in IsoSessions |-> [d \in Legs |-> "none"]]

\* request = await reader.read(BUFFER_SIZE): the client of s1 asks for the
\* blocklisted host, the client of s2 for the allowed one
IsoRead(s) ==
  /\ pc[s] = "read"
  /\ \E r \in (IF s = "s1" THEN DeniedReads ELSE AllowedReads) :
       /\ Len(r) <= BUFFER_SIZE
       /\ request' = [request EXCEPT ![s] = r]
  /\ Goto(s, "decode")
  /\ UNCHANGED << target, reachable, connects, serverOpen, wrote, closes,
                  legVars >>

\* the steps of the two tasks, interleaved by the event loop
IsoNext ==
  \E s \in DOMAIN pc :
    \/ IsoRead(s)
    \/ HandleClientDecode(s)
    \/ HandleClientDispatch(s)
    \/ HandleClientExcept(s)
    \/ SendForbiddenWrite(s)
    \/ SendForbiddenDrain(s)
    \/ SendForbiddenDrainError(s)
    \/ SendForbiddenClose(s)
    \/ HandleHttpsEstablished(s)
    \/ HandleHttpsDrain(s)
    \/ HandleHttpsDrainError(s)
    \/ HandleHttpsConnect(s)
    \/ HandleHttpsGather(s)
    \/ HandleHttpsJoin(s)
    \/ HandleHttpsExcept(s)
    \/ ForwardHttpConnect(s)
    \/ ForwardHttpWrite(s)
    \/ ForwardHttpDrain(s)
    \/ ForwardHttpDrainError(s)
    \/ ForwardHttpGather(s)
    \/ ForwardHttpJoin(s)
    \/ ForwardHttpFinally(s)
    \/ \E d \in Legs :
         \/ RelayRead(s, d)
         \/ RelayReadEof(s, d)
         \/ RelayReadError(s, d)
         \/ RelayWrite(s, d)
         \/ RelayDrain(s, d)
         \/ RelayDrainError(s, d)
         \/ RelayFinally(s, d)

IsoSpec == IsoInit /\ [][IsoNext]_vars

\* everything the program keeps for session t
Local(t) ==
  << pc[t], request[t], target[t], reachable[t], connects[t], serverOpen[t],
     wrote[t], closes[t], legPc[t], legData[t], legRead[t], legExit[t] >>

\* 1 when b holds, else 0
Count(b) == IF b THEN 1 ELSE 0

\* what a session to an allowed host shows when it runs alone: each relay
\* has delivered to its sink, in order, the bytes it has read except the
\* chunk it holds; the destination of a plain session has been written the
\* request or nothing yet; each stream writer has been closed once by the
\* relay that finished on it and the client writer once more by a handler
\* that returned through forward_http's finally or handle_https' except
RelaysAsAlone(s) ==
  /\ connects[s] \in { << >>, << << target[s].host, target[s].port >> >> }
  /\ IF IsConnect(s)
     THEN /\ wrote[s]["server_writer"] \o Pending(s, "c2s") = legRead[s]["c2s"]
          /\ wrote[s]["writer"] \o Pending(s, "s2c")
               \in { << >>, Established200 \o legRead[s]["s2c"] }
     ELSE /\ wrote[s]["server_writer"] \in { << >>, request[s] }
          /\ wrote[s]["writer"] \o Pending(s, "s2c") = legRead[s]["s2c"]
  /\ closes[s]["server_writer"] = Count(legPc[s]["c2s"] = "done")
  /\ closes[s]["writer"] =
       Count(legPc[s]["s2c"] = "done")
       + Count(pc[s] = "done" /\ ~(IsConnect(s) /\ LegsStarted(s)))

\* C14: with a session to the blocklisted host and a session to an allowed
\* host running concurrently, every step changes what the program keeps
\* for one session only; the denied session is written the 403 response
\* and nothing else, opens no connection and is closed once; the allowed
\* session's relays deliver and close as they do alone.
C14_SessionIsolation ==
  /\ [](\A s \in DOMAIN pc :
          /\ Denied(s) =>
               /\ wrote[s]["writer"] \in { << >>, Forbidden403 }
               /\ wrote[s]["server_writer"] = << >>
               /\ connects[s] = << >>
               /\ \A d \in Legs : legPc[s][d] = "off" /\ legRead[s][d] = << >>
               /\ pc[s] = "done" =>
                    wrote[s]["writer"] = Forbidden403 /\ closes[s]["writer"] = 1
          /\ (~target[s].none /\ ~Denied(s)) => RelaysAsAlone(s))
  /\ [][\E s \in DOMAIN pc :
          \A t \in DOMAIN pc \ {s} : Local(t)' = Local(t)]_vars

C14_Witness ==
  /\ DOMAIN pc = IsoSessions
  /\ Denied("s1") /\ pc["s1"] = "forbidden_drain"
  /\ wrote["s1"]["writer"] = Forbidden403
  /\ Tunnel("s2") /\ ~Denied("s2")
  /\ wrote["s2"]["server_writer"] = <<1, 2>>
  /\ wrote["s2"]["writer"] = Established200 \o <<2, 1>>

====
